---- MODULE Spec2Model ----
(***************************************************************************)
(* The to-do list manager of src/VOC/task.py: the Task entity, the TodoApp *)
(* store with its JSON persistence, and the menu loop of main().           *)
(*                                                                         *)
(* Encoding of Python values:                                              *)
(*   - a str is a sequence of one-character strings, so that strip() and   *)
(*     the substring test of search_tasks are computed;                    *)
(*   - a timestamp string "%Y-%m-%d %H:%M:%S" is the clock reading it      *)
(*     denotes (an integer >= 1); datetime.now() is an input of the        *)
(*     operation that reads it;                                            *)
(*   - None, where an int or a timestamp is expected, is the integer None, *)
(*     which no id and no clock reading of the model equals;               *)
(*   - a dict is a function whose DOMAIN is the set of keys present.       *)
(***************************************************************************)
EXTENDS Integers, Sequences, FiniteSets, TLC

VARIABLES
  tasks,       \* TodoApp.tasks: the list of Task objects
  next_id,     \* TodoApp.next_id
  categories,  \* TodoApp.categories
  file,        \* the backing file tasks.json
  phase,       \* where the caller of the store (or main) stands
  last,        \* the call made by the latest step and what it returned
  failures,    \* the saves that have failed in this run of main()
  assigned,    \* history: the ids add_task has assigned to this store
  pending      \* history: the id mark_task_completed was last called with,
               \* while only reads have followed, and whether
               \* mark_task_incomplete has then been called with it

vars ==
  <<tasks, next_id, categories, file, phase, last, failures, assigned, pending>>

(***************************************************************************)
(* Bounds of the model.                                                    *)
(***************************************************************************)
MaxId == 2            \* add_task is explored while next_id <= MaxId
MaxSaveFailures == 1  \* failed saves explored per run of main()

None == -1

(***************************************************************************)
(* Text.                                                                   *)
(***************************************************************************)
Str1(a) == <<a>>
EmptyStr == <<>>
General == <<"G", "e", "n", "e", "r", "a", "l">>
Work == <<"W", "o", "r", "k">>
Personal == <<"P", "e", "r", "s", "o", "n", "a", "l">>
Urgent == <<"U", "r", "g", "e", "n", "t">>
Health == <<"H", "e", "a", "l", "t", "h">>
Learning == <<"L", "e", "a", "r", "n", "i", "n", "g">>

DefaultCategories == {Work, Personal, Urgent, General, Health, Learning}

IsSpace(c) == c = " "

RECURSIVE lstrip(_)
lstrip(s) == IF s # <<>> /\ IsSpace(Head(s)) THEN lstrip(Tail(s)) ELSE s

RECURSIVE rstrip(_)
rstrip(s) ==
  IF s # <<>> /\ IsSpace(s[Len(s)]) THEN rstrip(SubSeq(s, 1, Len(s) - 1)) ELSE s

\* str.strip()
strip(s) == rstrip(lstrip(s))

(***************************************************************************)
(* class Task                                                              *)
(***************************************************************************)
\* Task.__init__; now is the reading of datetime.datetime.now()
Task(title, description, category, completed, created_date, task_id, now) ==
  [title          |-> title,
   description    |-> description,
   category       |-> category,
   completed      |-> completed,
   created_date   |-> IF created_date = None THEN now ELSE created_date,
   task_id        |-> task_id,
   completed_date |-> None]

\* Task.mark_completed
mark_completed(task, now) ==
  [task EXCEPT !.completed = TRUE, !.completed_date = now]

mark_incomplete_keeps_date(task) == [task EXCEPT !.completed = FALSE]

\* Task.mark_incomplete
mark_incomplete(task) ==
  [task EXCEPT !.completed = FALSE, !.completed_date = None]

to_dict_no_completed_date(task) ==
  [title          |-> task.title,
   description    |-> task.description,
   category       |-> task.category,
   completed      |-> task.completed,
   created_date   |-> task.created_date,
   task_id        |-> task.task_id,
   completed_date |-> None]

\* Task.to_dict
to_dict(task) ==
  [title          |-> task.title,
   description    |-> task.description,
   category       |-> task.category,
   completed      |-> task.completed,
   created_date   |-> task.created_date,
   task_id        |-> task.task_id,
   completed_date |-> task.completed_date]

\* dict.get(key, default)
Get(data, key, default) == IF key \in DOMAIN data THEN data[key] ELSE default

\* Task.from_dict, for a record that has the key 'title'
from_dict(data, now) ==
  [Task(data["title"],
        Get(data, "description", EmptyStr),
        Get(data, "category", General),
        Get(data, "completed", FALSE),
        Get(data, "created_date", None),
        Get(data, "task_id", None),
        now)
   EXCEPT !.completed_date = Get(data, "completed_date", None)]

(***************************************************************************)
(* class TodoApp.  A store is the record of the three fields a method      *)
(* reads and writes; a method returns the store it leaves and its result.  *)
(***************************************************************************)
Store(t, n, c) == [tasks |-> t, next_id |-> n, categories |-> c]

Ret(S, ret) == [S |-> S, ret |-> ret, exc |-> ""]
Raise(S, exc) == [S |-> S, ret |-> FALSE, exc |-> exc]

\* TodoApp.__init__ before its call of load_tasks
NewStore == Store(<<>>, 1, DefaultCategories)

find_task_by_id_leak(ts, task_id) ==
  IF \E i \in 1..Len(ts) : ts[i].task_id = task_id
    THEN CHOOSE i \in 1..Len(ts) :
           /\ ts[i].task_id = task_id
           /\ \A j \in 1..(i-1) : ts[j].task_id # task_id
    ELSE Len(ts)

\* TodoApp.find_task_by_id: the position of the first task with that id,
\* 0 for None
find_task_by_id(ts, task_id) ==
  IF \E i \in 1..Len(ts) : ts[i].task_id = task_id
    THEN CHOOSE i \in 1..Len(ts) :
           /\ ts[i].task_id = task_id
           /\ \A j \in 1..(i-1) : ts[j].task_id # task_id
    ELSE 0

\* list.remove(task) for the Task object at position i (Task defines no
\* __eq__, so remove compares by identity)
remove(ts, i) == SubSeq(ts, 1, i - 1) \o SubSeq(ts, i + 1, Len(ts))

add_task_reuses_id(S, title, description, category, now) ==
  IF strip(title) = EmptyStr
    THEN Ret(S, FALSE)
    ELSE Ret(Store(Append(S.tasks,
                          Task(strip(title), strip(description), category,
                               FALSE, None, Len(S.tasks) + 1, now)),
                   S.next_id + 1,
                   S.categories \cup {category}),
             TRUE)

add_task_no_check(S, title, description, category, now) ==
  Ret(Store(Append(S.tasks,
                   Task(strip(title), strip(description), category,
                        FALSE, None, S.next_id, now)),
            S.next_id + 1,
            S.categories \cup {category}),
      TRUE)

\* TodoApp.add_task
add_task(S, title, description, category, now) ==
  IF strip(title) = EmptyStr
    THEN Ret(S, FALSE)
    ELSE Ret(Store(Append(S.tasks,
                          Task(strip(title), strip(description), category,
                               FALSE, None, S.next_id, now)),
                   S.next_id + 1,
                   S.categories \cup {category}),
             TRUE)

mark_task_completed_restamps(S, task_id, now) ==
  LET i == find_task_by_id(S.tasks, task_id) IN
  IF i # 0
    THEN Ret([S EXCEPT !.tasks[i] = mark_completed(@, now)], TRUE)
    ELSE Ret(S, FALSE)

\* TodoApp.mark_task_completed
mark_task_completed(S, task_id, now) ==
  LET i == find_task_by_id(S.tasks, task_id) IN
  IF i # 0
    THEN IF S.tasks[i].completed
           THEN Ret(S, TRUE)
           ELSE Ret([S EXCEPT !.tasks[i] = mark_completed(@, now)], TRUE)
    ELSE Ret(S, FALSE)

\* TodoApp.mark_task_incomplete
mark_task_incomplete(S, task_id) ==
  LET i == find_task_by_id(S.tasks, task_id) IN
  IF i # 0
    THEN IF ~S.tasks[i].completed
           THEN Ret(S, TRUE)
           ELSE Ret([S EXCEPT !.tasks[i] = mark_incomplete(@)], TRUE)
    ELSE Ret(S, FALSE)

delete_task_first(S, task_id) ==
  IF S.tasks # <<>>
    THEN Ret([S EXCEPT !.tasks = Tail(@)], TRUE)
    ELSE Ret(S, FALSE)

\* TodoApp.delete_task
delete_task(S, task_id) ==
  LET i == find_task_by_id(S.tasks, task_id) IN
  IF i # 0
    THEN Ret([S EXCEPT !.tasks = remove(@, i)], TRUE)
    ELSE Ret(S, FALSE)

\* what input() gives when the user presses Ctrl-C instead of a line
KeyboardInterrupt == <<"KeyboardInterrupt">>

\* TodoApp.edit_task; e_title, e_description and e_category are what its
\* three input() calls give
edit_task(S, task_id, e_title, e_description, e_category) ==
  LET i  == find_task_by_id(S.tasks, task_id)
      nt == strip(e_title)
      nd == strip(e_description)
      nc == strip(e_category)
      S1 == IF nt # EmptyStr THEN [S EXCEPT !.tasks[i].title = nt] ELSE S
      S2 == IF nd # EmptyStr \/ nd = EmptyStr
              THEN [S1 EXCEPT !.tasks[i].description = nd] ELSE S1
      S3 == IF nc # EmptyStr
              THEN [S2 EXCEPT !.tasks[i].category = nc,
                              !.categories = @ \cup {nc}]
              ELSE S2
  IN  IF i = 0 THEN Ret(S, FALSE)
      ELSE IF e_title = KeyboardInterrupt THEN Raise(S, "KeyboardInterrupt")
      ELSE IF e_description = KeyboardInterrupt
             THEN Raise(S1, "KeyboardInterrupt")
      ELSE IF e_category = KeyboardInterrupt
             THEN Raise(S2, "KeyboardInterrupt")
      ELSE Ret(S3, TRUE)

\* len([task for task in ts if task.completed])
RECURSIVE completed_count(_)
completed_count(ts) ==
  IF ts = <<>> THEN 0
  ELSE (IF Head(ts).completed THEN 1 ELSE 0) + completed_count(Tail(ts))

\* the loop of get_task_statistics over the tasks still to visit, with the
\* dict categories_stats built so far
RECURSIVE categories_stats(_, _)
categories_stats(ts, stats) ==
  IF ts = <<>> THEN stats
  ELSE
    LET task == Head(ts)
        s1 == IF task.category \notin DOMAIN stats
                THEN [c \in DOMAIN stats \cup {task.category} |->
                        IF c = task.category
                          THEN [total |-> 0, completed |-> 0]
                          ELSE stats[c]]
                ELSE stats
        s2 == [s1 EXCEPT ![task.category].total = @ + 1]
        s3 == IF task.completed
                THEN [s2 EXCEPT ![task.category].completed = @ + 1]
                ELSE s2
    IN  categories_stats(Tail(ts), s3)

get_task_statistics_counts_open(S) ==
  LET total_tasks == Len(S.tasks)
      completed_tasks == total_tasks - completed_count(S.tasks)
  IN  Ret(S, [total |-> total_tasks,
              completed |-> completed_tasks,
              incomplete |-> total_tasks - completed_tasks,
              categories |->
                categories_stats(S.tasks,
                                 [c \in {} |-> [total |-> 0, completed |-> 0]])])

\* TodoApp.get_task_statistics, which assigns to no attribute of the store
get_task_statistics(S) ==
  LET total_tasks == Len(S.tasks)
      completed_tasks == completed_count(S.tasks)
  IN  Ret(S, [total |-> total_tasks,
              completed |-> completed_tasks,
              incomplete |-> total_tasks - completed_tasks,
              categories |->
                categories_stats(S.tasks,
                                 [c \in {} |-> [total |-> 0, completed |-> 0]])])

(***************************************************************************)
(* Persistence. The backing file either does not exist, or holds a JSON   *)
(* object (data is the dict json.load gives), a JSON value that is not an  *)
(* object, or text that is no JSON at all.                                 *)
(***************************************************************************)
EmptyDict == [k \in {} |-> None]
NoFile == [exists |-> FALSE, kind |-> "none", data |-> EmptyDict]
Garbage == [exists |-> TRUE, kind |-> "garbage", data |-> EmptyDict]
JsonArray == [exists |-> TRUE, kind |-> "array", data |-> EmptyDict]
JsonObject(d) == [exists |-> TRUE, kind |-> "object", data |-> d]

\* TodoApp.save_tasks; outcome is what the file system does: the write
\* succeeds, open() raises (the file is left as it was), or json.dump raises
\* after open() has truncated the file
save_tasks(S, f, outcome) ==
  CASE outcome = "ok" ->
         [file |-> JsonObject([tasks   |-> [i \in 1..Len(S.tasks) |->
                                              to_dict(S.tasks[i])],
                               next_id |-> S.next_id]),
          ret |-> TRUE]
    [] outcome = "open_fails" -> [file |-> f, ret |-> FALSE]
    [] outcome = "write_fails" -> [file |-> Garbage, ret |-> FALSE]

SaveOutcomes == {"ok", "open_fails", "write_fails"}

\* the loop of load_tasks that gives an id to the tasks that have none,
\* from position i on; None + 1 raises TypeError
RECURSIVE backfill(_, _, _)
backfill(ts, n, i) ==
  IF i > Len(ts) THEN [tasks |-> ts, next_id |-> n, exc |-> ""]
  ELSE IF ts[i].task_id = None
    THEN IF n = None
           THEN [tasks |-> ts, next_id |-> n, exc |-> "TypeError"]
           ELSE backfill([ts EXCEPT ![i].task_id = n], n + 1, i + 1)
    ELSE backfill(ts, n, i + 1)

\* TodoApp.load_tasks; every exception is caught and gives False
load_tasks(S, f, now) ==
  IF ~f.exists THEN Ret(S, TRUE)
  ELSE IF f.kind = "garbage" THEN Ret(S, FALSE)   \* json.JSONDecodeError
  ELSE IF f.kind = "array" THEN Ret(S, FALSE)     \* AttributeError: .get
  ELSE
    LET recs == Get(f.data, "tasks", <<>>) IN
    IF \E i \in 1..Len(recs) : "title" \notin DOMAIN recs[i]
      THEN Ret(S, FALSE)                          \* KeyError: 'title'
      ELSE
        LET ts == [i \in 1..Len(recs) |-> from_dict(recs[i], now)]
            b  == backfill(ts, Get(f.data, "next_id", 1), 1)
            S1 == [S EXCEPT !.tasks = b.tasks, !.next_id = b.next_id]
        IN  IF b.exc = "" THEN Ret(S1, TRUE) ELSE Ret(S1, FALSE)

(***************************************************************************)
(* The calls a client of the store makes, and what the environment gives.  *)
(***************************************************************************)
Clock == {1, 2}       \* readings of datetime.now()
CreationClock == {1}  \* its readings while a task is created
TaskIds == 1..(MaxId + 1)
Space == Str1(" ")
TitleA == Str1("a")
\* add_task's arguments: <<title, description, category>>
AddArgs ==
  { <<EmptyStr, EmptyStr, General>>,
    <<Space \o Space, Str1("d") \o Space, Str1("x")>>,
    <<Space \o Str1("a"), EmptyStr, General>>,
    <<Str1("a") \o Space, Space \o Str1("d"), Str1("x")>> }
\* the three lines edit_task reads: <<title, description, category>>
EditEntries ==
  { <<EmptyStr, EmptyStr, EmptyStr>>,
    <<Space, Space, Space>>,
    <<Str1("a") \o Space, Space \o Str1("d"), EmptyStr>>,
    <<EmptyStr, Str1("d"), Str1("x") \o Space>>,
    <<KeyboardInterrupt, EmptyStr, EmptyStr>>,
    <<Space \o Str1("a"), KeyboardInterrupt, EmptyStr>>,
    <<EmptyStr, EmptyStr, KeyboardInterrupt>> }

app == Store(tasks, next_id, categories)

NoArgs == <<>>

\* what get_task_statistics returns for a store without tasks
NoStats ==
  [total |-> 0, completed |-> 0, incomplete |-> 0,
   categories |-> [c \in {} |-> [total |-> 0, completed |-> 0]]]

\* the record of a call: the method, its task id (None when it has none),
\* its text arguments or the lines it read, what it returned, the
\* exception that left it, and whether a save_tasks in the step succeeded,
\* the statistics it returned when it is get_task_statistics, and the
\* reading of datetime.now() it was given when it is mark_task_completed
Called(op, arg, args, r, saved) ==
  [op |-> op, arg |-> arg, args |-> args, ret |-> r.ret, exc |-> r.exc,
   saved |-> saved,
   stats |-> NoStats,
   now |-> None]

NoPending == [id |-> None, undone |-> FALSE]

Becomes(S) ==
  /\ tasks' = S.tasks
  /\ next_id' = S.next_id
  /\ categories' = S.categories

\* TodoApp(): __init__ and its call of load_tasks
NewTodoApp ==
  /\ phase \in {"start", "saved"}
  /\ \E now \in Clock :
       LET r == load_tasks(NewStore, file, now) IN
       /\ Becomes(r.S)
       /\ last' = Called("load_tasks", None, NoArgs, r, FALSE)
  /\ phase' = IF phase = "start" THEN "open" ELSE "reloaded"
  /\ assigned' = <<>>
  /\ pending' = NoPending
  /\ UNCHANGED <<file, failures>>

AddTask ==
  /\ phase = "open"
  /\ next_id <= MaxId
  /\ \E a \in AddArgs, now \in CreationClock :
       LET r == add_task(app, a[1], a[2], a[3], now) IN
       /\ Becomes(r.S)
       /\ last' = Called("add_task", None, a, r, FALSE)
       /\ assigned' = IF r.ret
                        THEN Append(assigned, r.S.tasks[Len(r.S.tasks)].task_id)
                        ELSE assigned
  /\ pending' = NoPending
  /\ UNCHANGED <<file, phase, failures>>

MarkTaskCompleted ==
  /\ phase = "open"
  /\ \E task_id \in TaskIds, now \in Clock :
       LET r == mark_task_completed(app, task_id, now) IN
       /\ Becomes(r.S)
       /\ last' = [Called("mark_task_completed", task_id, NoArgs, r, FALSE)
                    EXCEPT !.now = now]
       /\ pending' = IF r.ret THEN [id |-> task_id, undone |-> FALSE]
                              ELSE NoPending
  /\ UNCHANGED <<file, phase, failures, assigned>>

MarkTaskIncomplete ==
  /\ phase = "open"
  /\ \E task_id \in TaskIds :
       LET r == mark_task_incomplete(app, task_id) IN
       /\ Becomes(r.S)
       /\ last' = Called("mark_task_incomplete", task_id, NoArgs, r, FALSE)
       /\ pending' = IF pending.id = task_id /\ ~pending.undone
                       THEN [id |-> task_id, undone |-> TRUE]
                       ELSE NoPending
  /\ UNCHANGED <<file, phase, failures, assigned>>

DeleteTask ==
  /\ phase = "open"
  /\ \E task_id \in TaskIds :
       LET r == delete_task(app, task_id) IN
       /\ Becomes(r.S)
       /\ last' = Called("delete_task", task_id, NoArgs, r, FALSE)
  /\ pending' = NoPending
  /\ UNCHANGED <<file, phase, failures, assigned>>

\* an interrupt inside edit_task reaches the caller, which this client
\* survives
EditTask ==
  /\ phase = "open"
  /\ \E task_id \in TaskIds, e \in EditEntries :
       LET r == edit_task(app, task_id, e[1], e[2], e[3]) IN
       /\ Becomes(r.S)
       /\ last' = Called("edit_task", task_id, e, r, FALSE)
  /\ pending' = NoPending
  /\ UNCHANGED <<file, phase, failures, assigned>>

\* a read of the store
FindTaskById ==
  /\ phase = "open"
  /\ \E task_id \in TaskIds :
       last' = Called("find_task_by_id", task_id, NoArgs,
                      Ret(app, find_task_by_id(tasks, task_id) # 0), FALSE)
  /\ pending' = IF pending.undone THEN NoPending ELSE pending
  /\ UNCHANGED <<tasks, next_id, categories, file, phase, failures, assigned>>

GetTaskStatistics ==
  /\ phase = "open"
  /\ LET r == get_task_statistics(app) IN
       /\ Becomes(r.S)
       /\ last' = [Called("get_task_statistics", None, NoArgs,
                          Ret(app, TRUE), FALSE) EXCEPT !.stats = r.ret]
  /\ pending' = IF pending.undone THEN NoPending ELSE pending
  /\ UNCHANGED <<file, phase, failures, assigned>>

\* save_tasks, after which this client drops the store
SaveTasks ==
  /\ phase = "open"
  /\ \E outcome \in SaveOutcomes :
       LET w == save_tasks(app, file, outcome) IN
       /\ file' = w.file
       /\ last' = Called("save_tasks", None, NoArgs, Ret(app, w.ret), w.ret)
  /\ phase' = "saved"
  /\ pending' = NoPending
  /\ UNCHANGED <<tasks, next_id, categories, failures, assigned>>

NoCall ==
  [op |-> "none", arg |-> None, args |-> NoArgs, ret |-> TRUE, exc |-> "",
   saved |-> FALSE,
   stats |-> NoStats,
   now |-> None]

Init ==
  /\ tasks = <<>>
  /\ next_id = 1
  /\ categories = DefaultCategories
  /\ file = NoFile
  /\ phase = "start"
  /\ last = NoCall
  /\ failures = 0
  /\ assigned = <<>>
  /\ pending = NoPending

Next ==
  \/ NewTodoApp
  \/ AddTask
  \/ MarkTaskCompleted
  \/ MarkTaskIncomplete
  \/ DeleteTask
  \/ EditTask
  \/ FindTaskById
  \/ GetTaskStatistics
  \/ SaveTasks

\* a client that builds a store through its methods, saves it and loads
\* the file into a fresh TodoApp
Spec == Init /\ [][Next]_vars

(***************************************************************************)
(* Loading a backing file this program did not write: an older version's   *)
(* file, whose records have no task_id, or a damaged one.                  *)
(***************************************************************************)
MaxLegacyTasks == 2

LegacyRecords ==
  { [title |-> TitleA],
    [title |-> TitleA, task_id |-> 1],
    [title |-> TitleA, task_id |-> 2],
    [title |-> TitleA, task_id |-> None],
    [task_id |-> 1],
    to_dict(mark_completed(Task(TitleA, EmptyStr, General, FALSE, 1, 1, 1), 2)) }

LegacyLists ==
  UNION { [1..n -> LegacyRecords] : n \in 0..MaxLegacyTasks }

LegacyNextIds == {None} \cup (1..(MaxLegacyTasks + 1))

LegacyFiles ==
  {NoFile, Garbage, JsonArray, JsonObject(EmptyDict)}
  \cup { JsonObject([tasks |-> l]) : l \in LegacyLists }
  \cup { JsonObject([next_id |-> n]) : n \in LegacyNextIds }
  \cup { JsonObject([tasks |-> l, next_id |-> n]) :
           l \in LegacyLists, n \in LegacyNextIds }

InitLoad ==
  /\ tasks = <<>>
  /\ next_id = 1
  /\ categories = DefaultCategories
  /\ file \in LegacyFiles
  /\ phase = "start"
  /\ last = NoCall
  /\ failures = 0
  /\ assigned = <<>>
  /\ pending = NoPending

LoadSpec == InitLoad /\ [][NewTodoApp]_vars

(***************************************************************************)
(* get_user_input and main().  The user's lines are sequences of           *)
(* characters; instead of a line the user may press Ctrl-C                 *)
(* (KeyboardInterrupt).  The input is never closed: no input() of the      *)
(* model raises EOFError.                                                  *)
(***************************************************************************)
MaxLines == 2   \* lines the user types at one prompt of get_user_input

DigitChars == <<"0", "1", "2", "3", "4", "5", "6", "7", "8", "9">>
IsDigit(c) == \E d \in 1..10 : DigitChars[d] = c
DigitValue(c) == (CHOOSE d \in 1..10 : DigitChars[d] = c) - 1

\* whether int(s) gives a value rather than ValueError, for a stripped
\* line of the model (none of which has a sign or an underscore)
IsInt(s) == s # <<>> /\ \A i \in 1..Len(s) : IsDigit(s[i])

\* int(s), for IsInt(s)
RECURSIVE int(_)
int(s) ==
  IF Len(s) = 1 THEN DigitValue(s[1])
  ELSE 10 * int(SubSeq(s, 1, Len(s) - 1)) + DigitValue(s[Len(s)])

\* str.lower(), on the letters of the model's lines
lower(s) ==
  [i \in 1..Len(s) |-> CASE s[i] = "Y" -> "y"
                         [] s[i] = "E" -> "e"
                         [] s[i] = "S" -> "s"
                         [] OTHER -> s[i]]

Answer(kind, str, n) == [kind |-> kind, str |-> str, int |-> n]

\* get_user_input on the lines the user types from now on: what it
\* returns ("value": str for a str prompt, int for an int prompt; "None"
\* after Ctrl-C), or "waiting" when the lines end while it still prompts
RECURSIVE get_user_input(_, _, _)
get_user_input(lines, input_type, allow_empty) ==
  IF lines = <<>> THEN Answer("waiting", EmptyStr, None)
  ELSE IF Head(lines) = KeyboardInterrupt THEN Answer("None", EmptyStr, None)
  ELSE
    LET value == strip(Head(lines)) IN
    IF ~allow_empty /\ value = EmptyStr
      THEN get_user_input(Tail(lines), input_type, allow_empty)
    ELSE IF input_type = "int"
      THEN IF IsInt(value)
             THEN Answer("value", EmptyStr, int(value))
             ELSE get_user_input(Tail(lines), input_type, allow_empty)
    ELSE Answer("value", value, None)

\* what get_user_input can give when the user types up to MaxLines lines
\* out of `from`
Answers(from, input_type, allow_empty) ==
  { get_user_input(l, input_type, allow_empty) :
      l \in UNION { [1..n -> from] : n \in 1..MaxLines } }
  \ {Answer("waiting", EmptyStr, None)}

Breaks == {KeyboardInterrupt}
ChoiceLines ==
  {EmptyStr, Str1("x")} \cup { Str1(DigitChars[d]) : d \in 1..10 }
  \cup { <<"1", "0">>, <<"1", "1">>, <<"1", "2">> } \cup Breaks
TitleLines == {EmptyStr, Space \o Str1("a")} \cup Breaks
DescriptionLines == {EmptyStr, Str1("d") \o Space} \cup Breaks
CategoryLines == {EmptyStr, Space} \cup Breaks
\* the three lines edit_task reads when main() calls it
MainEditEntries ==
  { <<EmptyStr, EmptyStr, EmptyStr>>,
    <<Str1("a") \o Space, Space \o Str1("d"), Space>>,
    <<KeyboardInterrupt, EmptyStr, EmptyStr>>,
    <<EmptyStr, KeyboardInterrupt, EmptyStr>>,
    <<EmptyStr, EmptyStr, KeyboardInterrupt>> }
IdLines ==
  {EmptyStr, Str1("x")} \cup { Str1(DigitChars[d + 1]) : d \in TaskIds }
  \cup Breaks
ConfirmLines == {EmptyStr, Str1("n"), Str1("Y"), <<"y", "e", "s">>} \cup Breaks
QueryLines == {EmptyStr, Str1("a")} \cup Breaks
PauseLines == {EmptyStr} \cup Breaks
MainClock == {2}  \* readings of datetime.now() while main() marks a task

ChoiceAnswers == Answers(ChoiceLines, "str", FALSE)
TitleAnswers == Answers(TitleLines, "str", FALSE)
DescriptionAnswers == Answers(DescriptionLines, "str", TRUE)
CategoryAnswers == Answers(CategoryLines, "str", TRUE)
IdAnswers == Answers(IdLines, "int", FALSE)
ConfirmAnswers == Answers(ConfirmLines, "str", TRUE)
QueryAnswers == Answers(QueryLines, "str", FALSE)

\* the menu choice main() reads is the number n
Chose(n) ==
  \E c \in ChoiceAnswers : c.kind = "value" /\ IsInt(c.str) /\ int(c.str) = n

\* how a branch of the loop of main() ends, and where that leaves main():
\* at the input() that ends the loop body ("pause"), back at the menu
\* (continue), after the loop (break), or out of main() with an exception
After(how) ==
  CASE how = "pause" -> "pause"
    [] how = "continue" -> "menu"
    [] how = "break" -> "exited"
    [] how = "KeyboardInterrupt" -> "interrupted"
    [] OTHER -> "crashed"

\* one branch of the loop: the store and the file it leaves, the method
\* it called and what that returned, whether it saved, how it ended
Iteration(S, f, fails, op, ret, saved, how) ==
  /\ Becomes(S)
  /\ file' = f
  /\ failures' = fails
  /\ phase' = After(how)
  /\ last' = [op |-> op, arg |-> None, args |-> NoArgs, ret |-> ret,
              exc |-> IF After(how) \in {"interrupted", "crashed"}
                        THEN how ELSE "",
              saved |-> saved,
              stats |-> NoStats,
              now |-> None]
  /\ assigned' =
       IF Len(S.tasks) > Len(tasks)
         THEN Append(assigned, S.tasks[Len(S.tasks)].task_id) ELSE assigned
  /\ pending' = NoPending

NotSaved(r, op) ==
  Iteration(r.S, file, failures, op, r.ret, FALSE, "pause")

\* r is what a method of the store returned: app.save_tasks() follows,
\* then the end of the loop body
SaveAndPause(r, op) ==
  \E outcome \in SaveOutcomes :
    /\ outcome # "ok" => failures < MaxSaveFailures
    /\ LET w == save_tasks(r.S, file, outcome) IN
       Iteration(r.S, w.file, IF w.ret THEN failures ELSE failures + 1,
                 op, r.ret, w.ret, "pause")

\* a branch that calls no method that writes the store: "show" when it
\* prints, "no_call" when a prompt was cancelled or there is nothing to
\* choose from
Untouched(op, how) == Iteration(app, file, failures, op, TRUE, FALSE, how)

\* main(): app = TodoApp()
MainStart ==
  /\ phase = "off"
  /\ \E now \in Clock :
       LET r == load_tasks(NewStore, file, now) IN
       /\ Becomes(r.S)
       /\ last' = Called("load_tasks", None, NoArgs, r, FALSE)
  /\ phase' = "menu"
  /\ failures' = 0
  /\ assigned' = <<>>
  /\ pending' = NoPending
  /\ UNCHANGED file

\* the choice is cancelled or is no number
MainNoChoice ==
  /\ phase = "menu"
  /\ \E c \in ChoiceAnswers :
       \/ c.kind = "None" /\ Untouched("no_choice", "continue")
       \/ c.kind = "value" /\ ~IsInt(c.str) /\ Untouched("no_choice", "continue")

\* choice 1
MainAdd ==
  /\ phase = "menu" /\ Chose(1)
  /\ next_id <= MaxId
  /\ \E t \in TitleAnswers :
       \/ t.kind = "None" /\ Untouched("no_call", "continue")
       \/ /\ t.kind = "value"
          /\ \E d \in DescriptionAnswers, c \in CategoryAnswers :
               LET category == IF c.kind = "None" \/ c.str = EmptyStr
                                 THEN General ELSE c.str
               IN  \/ d.kind = "None" /\ Untouched("no_call", "AttributeError")
                   \/ /\ d.kind = "value"
                      /\ \E now \in CreationClock :
                           SaveAndPause(
                             add_task(app, t.str, d.str, category, now),
                             "add")

\* choices 2, 3, 9 and 11, which read no further line, and a number that
\* is no choice
MainShow ==
  /\ phase = "menu"
  /\ \E n \in {2, 3, 9, 11, 12} : Chose(n)
  /\ Untouched("show", "pause")

\* choice 4
MainMarkCompleted ==
  /\ phase = "menu" /\ Chose(4)
  /\ IF tasks = <<>> THEN Untouched("no_call", "pause")
     ELSE \E i \in IdAnswers :
       \/ i.kind = "None" /\ Untouched("no_call", "pause")
       \/ /\ i.kind = "value"
          /\ \E now \in MainClock :
               SaveAndPause(mark_task_completed(app, i.int, now), "mark_completed")

\* choice 5
MainMarkIncomplete ==
  /\ phase = "menu" /\ Chose(5)
  /\ IF \A k \in 1..Len(tasks) : ~tasks[k].completed
       THEN Untouched("no_call", "pause")
     ELSE \E i \in IdAnswers :
       \/ i.kind = "None" /\ Untouched("no_call", "pause")
       \/ /\ i.kind = "value"
          /\ SaveAndPause(mark_task_incomplete(app, i.int), "mark_incomplete")

\* choice 6; an exception inside edit_task leaves main()
MainEdit ==
  /\ phase = "menu" /\ Chose(6)
  /\ IF tasks = <<>> THEN Untouched("no_call", "pause")
     ELSE \E i \in IdAnswers :
       \/ i.kind = "None" /\ Untouched("no_call", "pause")
       \/ /\ i.kind = "value"
          /\ \E e \in MainEditEntries :
               LET r == edit_task(app, i.int, e[1], e[2], e[3]) IN
               IF r.exc # ""
                 THEN Iteration(r.S, file, failures, "edit", FALSE, FALSE,
                                r.exc)
                 ELSE SaveAndPause(r, "edit")

\* choice 7; confirm.lower() raises AttributeError when the confirmation
\* was cancelled
MainDelete ==
  /\ phase = "menu" /\ Chose(7)
  /\ IF tasks = <<>> THEN Untouched("no_call", "pause")
     ELSE \E i \in IdAnswers :
       \/ i.kind = "None" /\ Untouched("no_call", "pause")
       \/ /\ i.kind = "value"
          /\ \E confirm \in ConfirmAnswers :
               \/ /\ confirm.kind = "None"
                  /\ Untouched("no_call", "AttributeError")
               \/ /\ confirm.kind = "value"
                  /\ IF lower(confirm.str) \in {Str1("y"), <<"y", "e", "s">>}
                       THEN SaveAndPause(delete_task(app, i.int), "delete")
                       ELSE Untouched("delete_cancelled", "pause")

\* choices 8 and 10, which read a query or a category and print
MainQuery ==
  /\ phase = "menu"
  /\ \E n \in {8, 10} : Chose(n)
  /\ \E q \in QueryAnswers :
       \/ q.kind = "None" /\ Untouched("show", "continue")
       \/ q.kind = "value" /\ Untouched("show", "pause")

\* choice 0
MainExit ==
  /\ phase = "menu" /\ Chose(0)
  /\ \E outcome \in SaveOutcomes :
       /\ outcome # "ok" => failures < MaxSaveFailures
       /\ LET w == save_tasks(app, file, outcome) IN
          Iteration(app, w.file, IF w.ret THEN failures ELSE failures + 1,
                    "exit", w.ret, w.ret, "break")

\* input("Press Enter to continue..."), outside every try of main()
MainPause ==
  /\ phase = "pause"
  /\ \E p \in PauseLines :
       /\ phase' = IF p = KeyboardInterrupt THEN "interrupted" ELSE "menu"
       /\ last' = [op |-> "pause", arg |-> None, args |-> NoArgs,
                   ret |-> TRUE,
                   exc |-> IF p = KeyboardInterrupt THEN p[1] ELSE "",
                   saved |-> FALSE,
                   stats |-> NoStats,
                   now |-> None]
  /\ UNCHANGED <<tasks, next_id, categories, file, failures, assigned, pending>>

\* the file an earlier run left: none, one cut short while it was
\* written, or what save_tasks wrote for a store of one completed task
EarlierFiles ==
  { NoFile, Garbage,
    save_tasks(
      mark_task_completed(
        add_task(NewStore, TitleA, EmptyStr, General, 1).S, 1, 2).S,
      NoFile, "ok").file }

InitMain ==
  /\ tasks = <<>>
  /\ next_id = 1
  /\ categories = DefaultCategories
  /\ file \in EarlierFiles
  /\ phase = "off"
  /\ last = NoCall
  /\ failures = 0
  /\ assigned = <<>>
  /\ pending = NoPending

NextMain ==
  \/ MainStart
  \/ MainNoChoice
  \/ MainAdd
  \/ MainShow
  \/ MainMarkCompleted
  \/ MainMarkIncomplete
  \/ MainEdit
  \/ MainDelete
  \/ MainQuery
  \/ MainExit
  \/ MainPause

\* one run of the program
MainSpec == InitMain /\ [][NextMain]_vars

(***************************************************************************)
(* Properties.                                                             *)
(***************************************************************************)
HasId(ts, task_id) == \E i \in 1..Len(ts) : ts[i].task_id = task_id

\* ts without its tasks of that id, the others in their order
RECURSIVE Without(_, _)
Without(ts, task_id) ==
  IF ts = <<>> THEN <<>>
  ELSE IF Head(ts).task_id = task_id THEN Without(Tail(ts), task_id)
  ELSE <<Head(ts)>> \o Without(Tail(ts), task_id)

StoreUnchanged ==
  /\ tasks' = tasks
  /\ next_id' = next_id
  /\ categories' = categories

\* C1: in a store that started empty, the tasks have pairwise distinct
\* ids, every id in the store is one add_task assigned, and the ids
\* add_task assigns are strictly increasing in the order of the successful
\* adds, so that none is assigned twice, also after a delete.
C1_UniqueIncreasingIds ==
  /\ \A i, j \in 1..Len(tasks) : i # j => tasks[i].task_id # tasks[j].task_id
  /\ \A i, j \in 1..Len(assigned) : i < j => assigned[i] < assigned[j]
  /\ phase \in {"open", "saved"} =>
       \A i \in 1..Len(tasks) :
         \E k \in 1..Len(assigned) : assigned[k] = tasks[i].task_id

\* an add_task has succeeded after a delete_task removed an earlier task
C1_Witness ==
  /\ last.op = "add_task" /\ last.ret
  /\ Len(assigned) = 2
  /\ Len(tasks) = 1
  /\ tasks[1].task_id = assigned[2]

\* C2: a successful save_tasks followed by the load of the file into a
\* fresh TodoApp gives back the tasks, all seven fields of each, and
\* next_id as they were before the save.
C2_RoundTrip ==
  [][(phase = "saved" /\ last.saved /\ phase' = "reloaded")
       => (last'.ret /\ tasks' = tasks /\ next_id' = next_id)]_vars

\* a store of two tasks, one of them completed and one with a description
\* and a category of its own, has been saved and loaded back
C2_Witness ==
  /\ phase = "reloaded" /\ last.op = "load_tasks" /\ last.ret
  /\ Len(tasks) = 2
  /\ \E i \in 1..2 : tasks[i].completed /\ tasks[i].completed_date # None
  /\ \E i \in 1..2 :
       tasks[i].description # EmptyStr /\ tasks[i].category # General

\* C4: edit_task on an existing id with the three lines left empty leaves
\* the task's title, description and category as they were.
C4_BlankEditChangesNothing ==
  [][(/\ last'.op = "edit_task"
      /\ HasId(tasks, last'.arg)
      /\ last'.args = <<EmptyStr, EmptyStr, EmptyStr>>)
       => (last'.ret /\ tasks' = tasks)]_vars

\* C7: add_task with an empty or whitespace-only title returns failure and
\* leaves tasks, next_id and the known categories unchanged.
C7_EmptyTitleRejected ==
  [][(/\ last'.op = "add_task"
      /\ \A i \in 1..Len(last'.args[1]) : last'.args[1][i] = " ")
       => (~last'.ret /\ StoreUnchanged)]_vars

\* add_task was called with a whitespace-only title and a category not yet
\* known, on a store that holds a task
C7_Witness ==
  /\ last.op = "add_task" /\ ~last.ret
  /\ Len(last.args[1]) > 0
  /\ last.args[3] \notin categories
  /\ Len(tasks) > 0

ReadOps == {"find_task_by_id", "get_task_statistics"}

C10_NotFoundNoChange ==
  [][(/\ last'.op \in {"mark_task_completed", "mark_task_incomplete",
                       "edit_task", "delete_task"}
      /\ ~HasId(tasks, last'.arg))
       => (~last'.ret /\ last'.exc = "" /\ StoreUnchanged)]_vars

\* edit_task was called with an id that is not in a store of two tasks
C10_Witness ==
  /\ last.op = "edit_task" /\ ~last.ret /\ last.exc = ""
  /\ Len(tasks) = 2
  /\ ~HasId(tasks, last.arg)

\* the file holds what to_dict gives for each task of the store, in the
\* order of the store, and the store's next_id
Persisted ==
  /\ file.exists /\ file.kind = "object"
  /\ DOMAIN file.data = {"tasks", "next_id"}
  /\ file.data["next_id"] = next_id
  /\ Len(file.data["tasks"]) = Len(tasks)
  /\ \A i \in 1..Len(tasks) :
       LET rec == file.data["tasks"][i] IN
       /\ rec["title"] = tasks[i].title
       /\ rec["description"] = tasks[i].description
       /\ rec["category"] = tasks[i].category
       /\ rec["completed"] = tasks[i].completed
       /\ rec["created_date"] = tasks[i].created_date
       /\ rec["task_id"] = tasks[i].task_id
       /\ rec["completed_date"] = tasks[i].completed_date

MutatingBranches ==
  {"add", "mark_completed", "mark_incomplete", "edit", "delete"}

\* C3: in main(), a branch that has called add_task, mark_task_completed,
\* mark_task_incomplete, edit_task or delete_task, and choice 0, call
\* save_tasks before the next input is read; when that save succeeded the
\* file holds the tasks and next_id of the store; and no other branch
\* that goes on to read input changes tasks or next_id.
C3_SaveFollowsMutation ==
  [][phase = "menu" =>
       /\ (\/ last'.op \in MutatingBranches /\ phase' = "pause"
           \/ last'.op = "exit")
            => /\ last'.saved \/ failures' = failures + 1
               /\ last'.saved => Persisted'
       /\ (/\ <<tasks, next_id>>' # <<tasks, next_id>>
           /\ phase' \in {"menu", "pause", "exited"})
            => last'.op \in MutatingBranches]_vars

\* after a save that failed, a task was deleted and the save succeeded
C3_Witness ==
  /\ phase = "pause" /\ last.op = "delete" /\ last.ret /\ last.saved
  /\ failures = 1
  /\ Len(tasks) = 1 /\ tasks[1].completed

\* the tasks of ts that have category c
InCategory(ts, c) == { i \in 1..Len(ts) : ts[i].category = c }

\* the sum of f[c][field] over the categories c of cs
RECURSIVE SumOver(_, _, _)
SumOver(f, cs, field) ==
  IF cs = {} THEN 0
  ELSE LET c == CHOOSE x \in cs : TRUE
       IN  f[c][field] + SumOver(f, cs \ {c}, field)

\* C12: get_task_statistics changes nothing of the store or the file and
\* returns total = the number of tasks, completed = the number of completed
\* tasks, incomplete = total - completed, and one entry for each category
\* some task has, whose total and completed are the numbers of tasks and
\* of completed tasks of exactly that category; the entries' totals sum to
\* total and their completed counts to completed.
C12_StatisticsCount ==
  [][last'.op = "get_task_statistics" =>
       LET stats == last'.stats
           done == { i \in 1..Len(tasks) : tasks[i].completed }
       IN  /\ StoreUnchanged /\ file' = file
           /\ stats.total = Len(tasks)
           /\ stats.completed = Cardinality(done)
           /\ stats.incomplete = stats.total - stats.completed
           /\ DOMAIN stats.categories =
                { tasks[i].category : i \in 1..Len(tasks) }
           /\ \A c \in DOMAIN stats.categories :
                /\ DOMAIN stats.categories[c] = {"total", "completed"}
                /\ stats.categories[c].total =
                     Cardinality(InCategory(tasks, c))
                /\ stats.categories[c].completed =
                     Cardinality(InCategory(tasks, c) \cap done)
           /\ SumOver(stats.categories, DOMAIN stats.categories, "total")
                = stats.total
           /\ SumOver(stats.categories, DOMAIN stats.categories, "completed")
                = stats.completed]_vars

\* the statistics of a store of two tasks of two categories, one of the
\* tasks completed
C12_Witness ==
  /\ last.op = "get_task_statistics"
  /\ Len(tasks) = 2
  /\ tasks[1].category # tasks[2].category
  /\ tasks[1].completed /\ ~tasks[2].completed
  /\ last.stats.completed = 1

\* C13: mark_task_completed with the id of a task that is completed, and
\* mark_task_incomplete with the id of a task that is not, return success
\* and leave every task as it was, the completed flag and completed_date
\* of that task included, while with an id that is not in the store they
\* return failure.
C13_RepeatedMarkIsNoOp ==
  [][/\ (/\ last'.op = "mark_task_completed"
          /\ \E i \in 1..Len(tasks) :
               tasks[i].task_id = last'.arg /\ tasks[i].completed)
           => (last'.ret /\ StoreUnchanged)
     /\ (/\ last'.op = "mark_task_incomplete"
          /\ \E i \in 1..Len(tasks) :
               tasks[i].task_id = last'.arg /\ ~tasks[i].completed)
           => (last'.ret /\ StoreUnchanged)
     /\ (/\ last'.op \in {"mark_task_completed", "mark_task_incomplete"}
          /\ ~HasId(tasks, last'.arg))
           => ~last'.ret]_vars

\* mark_task_completed has returned success for a task that was completed
\* at another reading of the clock than the one this call was given
C13_Witness ==
  /\ last.op = "mark_task_completed" /\ last.ret
  /\ Len(tasks) = 2
  /\ \E i \in 1..Len(tasks) :
       /\ tasks[i].task_id = last.arg
       /\ tasks[i].completed
       /\ tasks[i].completed_date \notin {None, last.now}

\* C11: no step of the loop of main() leaves it through an error: from
\* the menu, main() goes on to read input, ends after the loop through
\* choice 0, or is left by a KeyboardInterrupt; and a branch in which a
\* prompt of get_user_input was cancelled goes on to read input with
\* tasks, next_id and the known categories unchanged.
C11_ErrorsDoNotEndLoop ==
  [][phase = "menu" =>
       /\ phase' \in {"menu", "pause", "exited", "interrupted"}
       /\ phase' = "exited" => last'.op = "exit"
       /\ phase' = "interrupted" => last'.exc = "KeyboardInterrupt"
       /\ last'.op \in {"no_choice", "no_call"}
            => (phase' \in {"menu", "pause"} /\ StoreUnchanged)]_vars

LoadFailed == last.op = "load_tasks" /\ ~last.ret

\* C5: whenever load_tasks fails it returns failure without raising and
\* the store is left empty: tasks is the empty list and next_id is 1.
C5_FailedLoadLeavesEmpty ==
  LoadFailed => (last.exc = "" /\ tasks = <<>> /\ next_id = 1)

LacksId(rec) == Get(rec, "task_id", None) = None

\* C6: after a successful load_tasks of a file in which some records lack
\* task_id, every task has a task_id, the ids are pairwise distinct and
\* next_id is greater than each of them.
C6_BackfillKeepsIdsUnique ==
  (/\ last.op = "load_tasks" /\ last.ret
   /\ file.kind = "object"
   /\ \E i \in 1..Len(Get(file.data, "tasks", <<>>)) :
        LacksId(Get(file.data, "tasks", <<>>)[i]))
    => /\ \A i \in 1..Len(tasks) : tasks[i].task_id # None
       /\ \A i, j \in 1..Len(tasks) :
            i # j => tasks[i].task_id # tasks[j].task_id
       /\ \A i \in 1..Len(tasks) : tasks[i].task_id < next_id

====
